---- MODULE Spec2Model ----
(***************************************************************************)
(* A model of src/interface.py: the AppInterface controller of the typing  *)
(* speed test.  The controller is single threaded; its state changes only  *)
(* in callbacks the Tk event loop delivers one at a time: the one-shot     *)
(* _initial_setup, the <KeyPress> handler on_key_press, the one-second     *)
(* timer callback _update_timer and the scroll cooldown callback           *)
(* _enable_scrolling.  Each callback is one atomic action.                 *)
(*                                                                         *)
(* The handlers are written as operators from the controller's fields      *)
(* (a record with the attribute names of AppInterface) to its fields after *)
(* the call, so that a handler that calls another composes with it.        *)
(***************************************************************************)
EXTENDS Integers, Sequences, FiniteSets, TLC

\* ------------------------------------------------------------------ bounds

\* Longest raw line of phrases.txt, not counting its line end.
MaxLen == 3

\* correct_chars grows without bound (type, erase, retype); hits beyond this
\* value are not explored.
MaxCorrect == 2

\* The most hits a session has made when its timer expires, in SpecExpiry.
MaxHits == 25

\* Longest phrase of the sessions checked under fairness.
MaxFairLen == 1

\* ------------------------------------------------------- program constants

TEST_DURATION == 30

\* tk.Text(height=5): the height of the text widget in lines.
WidgetHeightInLines == 5

\* The fallback geometry of _calculate_stable_geometry.
DefaultLineHeight == 25

DefaultScrollThreshold == 50

\* The keysyms on_key_press returns early for.
ModifierKeysyms ==
    {"Shift_L", "Shift_R", "Control_L", "Control_R",
     "Alt_L", "Alt_R", "Caps_Lock", "Tab"}

\* ------------------------------------------------------------- environment

\* A key event of the toolkit: its key symbol and the character it prints
\* ("" when it prints none).  BackSpace prints the control character \x08,
\* written "\\b" here.
KeyEvent(keysym, char) == [keysym |-> keysym, char |-> char]

KeyEvents ==
    {KeyEvent(k, "") : k \in ModifierKeysyms \ {"Tab"}}
    \cup {KeyEvent("Tab", "\t"), KeyEvent("BackSpace", "\\b"),
          KeyEvent("space", " "), KeyEvent("a", "a"), KeyEvent("b", "b"),
          KeyEvent("Left", "")}

\* The characters of a line of phrases.txt: a letter and a whitespace
\* character that a key prints.
Alphabet == {"a", "\t"}

Whitespace == {" ", "\t", "\n", "\r"}

\* The raw lines readlines() can return: at most MaxLen characters and the
\* line end.
RawLines ==
    UNION {{line \o <<"\n">> : line \in [1..n -> Alphabet]} : n \in 0..MaxLen}

\* What reading phrases.txt can come to: open() raises FileNotFoundError,
\* readlines() returns no line, or random.choice() returns a line.
FileMissing == [kind |-> "missing", line |-> <<>>]

FileEmpty == [kind |-> "empty", line |-> <<>>]

FileLine(line) == [kind |-> "line", line |-> line]

\* "Error: Could not load text from phrases.txt."
ErrorText ==
    <<"E", "r", "r", "o", "r", ":", " ", "C", "o", "u", "l",
      "d", " ", "n", "o", "t", " ", "l", "o", "a", "d", " ",
      "t", "e", "x", "t", " ", "f", "r", "o", "m", " ", "p",
      "h", "r", "a", "s", "e", "s", ".", "t", "x", "t", ".">>

\* What text_area.bbox() can answer: a TclError, None (the character is not
\* visible), or a box; of a box only y (bbox[1]) and the height (bbox[3])
\* are read.
BboxError == [kind |-> "error", y |-> 0, height |-> 0]

BboxNone == [kind |-> "none", y |-> 0, height |-> 0]

Bbox(y, height) == [kind |-> "box", y |-> y, height |-> height]

\* Line heights the font can measure (even, so that 1.5 line heights is a
\* whole number of pixels).
LineHeights == {20}

\* The y pixel of the cursor's line: line k of the page, of any line height.
CursorBboxes ==
    {BboxError, BboxNone}
    \cup {Bbox(k * h, h) : k \in {0, 4}, h \in LineHeights}

FirstCharBboxes ==
    {BboxError, BboxNone} \cup {Bbox(0, h) : h \in LineHeights}

\* ------------------------------------------------------------------- state

VARIABLES
    original_text,      \* the phrase, a sequence of characters
    current_index,
    correct_chars,
    total_typed_chars,
    time_left,
    timer_running,
    timer_id,           \* "None", or whether the handle it holds is still
                        \* scheduled ("scheduled") or has fired ("fired")
    is_scrolling,
    line_height_px,
    scroll_threshold_px,
    tag_ranges,         \* text_area: tag name -> the 0-based character
                        \* indices of line 1 that carry the tag
    key_bound,          \* master has a <KeyPress> binding
    after_queue,        \* master.after: callback name -> number scheduled
    wpm_label,
    title_label,
    yview_call,         \* the scroll call the latest event made on
                        \* text_area: "none", "pages" or "see"
    end_test_runs,      \* history: the calls of _end_test so far
    last_key,           \* history: the latest key press (see KeyRecord)
    matched             \* history: the number of key presses the handler
                        \* got, while each was the key that prints the next
                        \* character of the phrase; Off after any other

vars ==
    <<original_text, current_index, correct_chars, total_typed_chars,
      time_left, timer_running, timer_id, is_scrolling, line_height_px,
      scroll_threshold_px, tag_ranges, key_bound, after_queue, wpm_label,
      title_label, yview_call, end_test_runs, last_key, matched>>

\* The controller's fields as one record.
Self ==
    [original_text |-> original_text,
     current_index |-> current_index,
     correct_chars |-> correct_chars,
     total_typed_chars |-> total_typed_chars,
     time_left |-> time_left,
     timer_running |-> timer_running,
     timer_id |-> timer_id,
     is_scrolling |-> is_scrolling,
     line_height_px |-> line_height_px,
     scroll_threshold_px |-> scroll_threshold_px,
     tag_ranges |-> tag_ranges,
     key_bound |-> key_bound,
     after_queue |-> after_queue,
     wpm_label |-> wpm_label,
     title_label |-> title_label,
     yview_call |-> yview_call,
     end_test_runs |-> end_test_runs]

\* The variables take the fields of self.
Becomes(self) ==
    /\ original_text' = self.original_text
    /\ current_index' = self.current_index
    /\ correct_chars' = self.correct_chars
    /\ total_typed_chars' = self.total_typed_chars
    /\ time_left' = self.time_left
    /\ timer_running' = self.timer_running
    /\ timer_id' = self.timer_id
    /\ is_scrolling' = self.is_scrolling
    /\ line_height_px' = self.line_height_px
    /\ scroll_threshold_px' = self.scroll_threshold_px
    /\ tag_ranges' = self.tag_ranges
    /\ key_bound' = self.key_bound
    /\ after_queue' = self.after_queue
    /\ wpm_label' = self.wpm_label
    /\ title_label' = self.title_label
    /\ yview_call' = self.yview_call
    /\ end_test_runs' = self.end_test_runs

Len0(self) == Len(self.original_text)

\* ---------------------------------------------------------- the Tk widgets

NoTags == [untouched |-> {}, correct |-> {}, incorrect |-> {}, cursor |-> {}]

\* text_area.tag_add(tag, "1.i", "1.i+1c") and tag_remove of the same range.
tag_add(self, tag, i) ==
    [self EXCEPT !.tag_ranges[tag] = @ \cup {i}]

tag_remove(self, tag, i) ==
    [self EXCEPT !.tag_ranges[tag] = @ \ {i}]

\* master.after(ms, callback): one more scheduled call of callback.
after(self, callback) ==
    [self EXCEPT !.after_queue[callback] = @ + 1]

\* The event loop takes one scheduled call of callback off the queue to run
\* it.  timer_id holds the handle of the latest _update_timer scheduled;
\* with one such call scheduled it is the one that fires.
Fired(self, callback) ==
    [self EXCEPT !.after_queue[callback] = @ - 1,
                 !.timer_id = IF callback = "_update_timer"
                                 /\ self.timer_id = "scheduled"
                                 /\ self.after_queue[callback] = 1
                              THEN "fired" ELSE @]

\* master.after_cancel(self.timer_id): a handle that has fired is ignored.
after_cancel_timer(self) ==
    IF self.timer_id = "scheduled"
    THEN [self EXCEPT !.after_queue["_update_timer"] = @ - 1,
                      !.timer_id = "fired"]
    ELSE self

\* f"WPM: {wpm:.2f}" of the quotient num / den: the decimal with two places
\* nearest to it.
Format2f(num, den) ==
    LET hundredths == (2 * 100 * num + den) \div (2 * den)
        frac == hundredths % 100
    IN  "WPM: " \o ToString(hundredths \div 100) \o "."
            \o ToString(frac \div 10) \o ToString(frac % 10)

\* str.strip(): the line without its leading and trailing whitespace.
RECURSIVE lstrip(_)
lstrip(s) ==
    IF s # <<>> /\ Head(s) \in Whitespace THEN lstrip(Tail(s)) ELSE s

RECURSIVE rstrip(_)
rstrip(s) ==
    IF s # <<>> /\ s[Len(s)] \in Whitespace
    THEN rstrip(SubSeq(s, 1, Len(s) - 1)) ELSE s

strip(s) == rstrip(lstrip(s))

\* ----------------------------------------------------------- test lifecycle

\* Fault variant of end_test: the <KeyPress> binding is left in place.
end_test_keeps_binding(self) ==
    LET cancelled == IF self.timer_id # "None"
                     THEN after_cancel_timer(self) ELSE self
        wpm == IF TEST_DURATION > 0
               THEN Format2f(self.correct_chars * 60, 5 * TEST_DURATION)
               ELSE Format2f(0, 1)
    IN  [cancelled EXCEPT !.end_test_runs = @ + 1,
                          !.wpm_label = wpm,
                          !.title_label = "Time's Up! Press Restart."]

\* Fault variant of end_test: the words are counted from every typed
\* character instead of the correct ones.
end_test_counts_typed(self) ==
    LET cancelled == IF self.timer_id # "None"
                     THEN after_cancel_timer(self) ELSE self
        wpm == IF TEST_DURATION > 0
               THEN Format2f(self.total_typed_chars * 60, 5 * TEST_DURATION)
               ELSE Format2f(0, 1)
    IN  [cancelled EXCEPT !.key_bound = FALSE,
                          !.end_test_runs = @ + 1,
                          !.wpm_label = wpm,
                          !.title_label = "Time's Up! Press Restart."]

end_test(self) ==
    LET cancelled == IF self.timer_id # "None"
                     THEN after_cancel_timer(self) ELSE self
        \* minutes = TEST_DURATION / 60.0 is the quotient TEST_DURATION / 60;
        \* wpm = (correct_chars / 5) / minutes if minutes > 0 else 0
        wpm == IF TEST_DURATION > 0
               THEN Format2f(self.correct_chars * 60, 5 * TEST_DURATION)
               ELSE Format2f(0, 1)
    IN  [cancelled EXCEPT !.key_bound = FALSE,
                          !.end_test_runs = @ + 1,
                          !.wpm_label = wpm,
                          !.title_label = "Time's Up! Press Restart."]

\* Fault variant of update_timer: the next callback is not scheduled.
update_timer_once(self) ==
    IF self.time_left > 0
    THEN [self EXCEPT !.time_left = @ - 1, !.timer_id = "scheduled"]
    ELSE end_test(self)

update_timer(self) ==
    IF self.time_left > 0
    THEN [after([self EXCEPT !.time_left = @ - 1], "_update_timer")
            EXCEPT !.timer_id = "scheduled"]
    ELSE end_test(self)

start_test(self) ==
    IF ~self.timer_running
    THEN update_timer([self EXCEPT !.timer_running = TRUE])
    ELSE self

update_cursor_position(self) ==
    LET cleared == [self EXCEPT !.tag_ranges["cursor"] = {}]
    IN  IF self.current_index < Len0(self)
        THEN tag_add(cleared, "cursor", self.current_index)
        ELSE cleared

\* The text the try block of _setup_new_test leaves in original_text: the
\* chosen line stripped, or the fixed text of the except clause when open()
\* raises FileNotFoundError or random.choice() raises IndexError on the
\* empty list of lines.
load_text(read) ==
    IF read.kind = "line" THEN strip(read.line) ELSE ErrorText

\* Fault variant of setup_new_test: the new text is not tagged untouched.
setup_new_test_untagged(self, read) ==
    LET loaded == [self EXCEPT !.original_text = load_text(read),
                               !.tag_ranges = NoTags]
    IN  update_cursor_position([loaded EXCEPT !.current_index = 0])

\* Fault variant of setup_new_test: a failed load is passed over and the
\* text stays what it was.
setup_new_test_passes_failure(self, read) ==
    LET loaded == IF read.kind = "line"
                  THEN [self EXCEPT !.original_text = strip(read.line)]
                  ELSE self
        tagged == [loaded EXCEPT
                     !.tag_ranges = [NoTags EXCEPT
                                       !.untouched = 0..Len0(loaded)]]
    IN  update_cursor_position([tagged EXCEPT !.current_index = 0])

\* The text widget holds the phrase and its final newline: "1.0" to END
\* covers the indices 0 .. len.
setup_new_test(self, read) ==
    LET loaded == [self EXCEPT !.original_text = load_text(read)]
        tagged == [loaded EXCEPT
                     !.tag_ranges = [NoTags EXCEPT
                                       !.untouched = 0..Len0(loaded)]]
    IN  update_cursor_position([tagged EXCEPT !.current_index = 0])

calculate_stable_geometry(self, bbox) ==
    CASE bbox.kind = "error" ->
            [self EXCEPT !.line_height_px = DefaultLineHeight,
                         !.scroll_threshold_px = DefaultScrollThreshold]
      [] bbox.kind = "none" -> self
      [] bbox.kind = "box" ->
            [self EXCEPT
               !.line_height_px = bbox.height,
               !.scroll_threshold_px =
                   bbox.height * WidgetHeightInLines - (bbox.height * 3) \div 2]

initial_setup(self, read, bbox) ==
    calculate_stable_geometry(
        [setup_new_test(self, read) EXCEPT !.key_bound = TRUE], bbox)

\* ----------------------------------------------------------- event handling

\* Fault variant of handle_backspace: nothing is erased once the phrase is
\* complete.
handle_backspace_inside_only(self) ==
    IF self.current_index > 0 /\ self.current_index < Len0(self)
    THEN LET moved == [self EXCEPT
                         !.current_index = @ - 1,
                         !.total_typed_chars = IF @ > 0 THEN @ - 1 ELSE @]
             i == moved.current_index
         IN  tag_add(tag_remove(tag_remove(moved, "correct", i),
                                "incorrect", i),
                     "untouched", i)
    ELSE self

\* Fault variant of handle_backspace: no floor at index 0.
handle_backspace_no_floor(self) ==
    LET moved == [self EXCEPT
                    !.current_index = @ - 1,
                    !.total_typed_chars = IF @ > 0 THEN @ - 1 ELSE @]
        i == moved.current_index
    IN  tag_add(tag_remove(tag_remove(moved, "correct", i), "incorrect", i),
                "untouched", i)

\* Fault variant of handle_backspace: erasing a character tagged correct
\* takes its hit back.
handle_backspace_uncounts_hit(self) ==
    IF self.current_index > 0
    THEN LET i == self.current_index - 1
             moved == [self EXCEPT
                         !.current_index = i,
                         !.total_typed_chars = IF @ > 0 THEN @ - 1 ELSE @,
                         !.correct_chars =
                             IF i \in self.tag_ranges["correct"]
                             THEN @ - 1 ELSE @]
         IN  tag_add(tag_remove(tag_remove(moved, "correct", i),
                                "incorrect", i),
                     "untouched", i)
    ELSE self

handle_backspace(self) ==
    IF self.current_index > 0
    THEN LET moved == [self EXCEPT
                         !.current_index = @ - 1,
                         !.total_typed_chars = IF @ > 0 THEN @ - 1 ELSE @]
             i == moved.current_index
         IN  tag_add(tag_remove(tag_remove(moved, "correct", i),
                                "incorrect", i),
                     "untouched", i)
    ELSE self

\* Fault variant of handle_character: the untouched tag stays on the typed
\* character.
handle_character_keeps_untouched(self, event) ==
    LET typed_char == IF event.keysym = "space" THEN " " ELSE event.char
        i == self.current_index
        expected_char == self.original_text[i + 1]
        marked == IF typed_char = expected_char
                  THEN [tag_add(self, "correct", i)
                          EXCEPT !.correct_chars = @ + 1]
                  ELSE tag_add(self, "incorrect", i)
    IN  [marked EXCEPT !.total_typed_chars = @ + 1,
                       !.current_index = @ + 1]

\* Fault variant of handle_character: only mismatches count as typed.
handle_character_counts_misses(self, event) ==
    LET typed_char == IF event.keysym = "space" THEN " " ELSE event.char
        i == self.current_index
        expected_char == self.original_text[i + 1]
        cleared == tag_remove(self, "untouched", i)
        marked == IF typed_char = expected_char
                  THEN [tag_add(cleared, "correct", i)
                          EXCEPT !.correct_chars = @ + 1]
                  ELSE [tag_add(cleared, "incorrect", i)
                          EXCEPT !.total_typed_chars = @ + 1]
    IN  [marked EXCEPT !.current_index = @ + 1]

handle_character(self, event) ==
    LET typed_char == IF event.keysym = "space" THEN " " ELSE event.char
        i == self.current_index
        expected_char == self.original_text[i + 1]
        cleared == tag_remove(self, "untouched", i)
        marked == IF typed_char = expected_char
                  THEN [tag_add(cleared, "correct", i)
                          EXCEPT !.correct_chars = @ + 1]
                  ELSE tag_add(cleared, "incorrect", i)
    IN  [marked EXCEPT !.total_typed_chars = @ + 1,
                       !.current_index = @ + 1]

enable_scrolling(self) == [self EXCEPT !.is_scrolling = FALSE]

\* Fault variant of update_scroll_position: no cooldown is scheduled after
\* the page scroll.
update_scroll_position_no_cooldown(self, cursor_bbox) ==
    IF self.is_scrolling THEN self
    ELSE CASE cursor_bbox.kind = "error" -> self
           [] cursor_bbox.kind = "none" -> [self EXCEPT !.yview_call = "see"]
           [] cursor_bbox.kind = "box" ->
                IF cursor_bbox.y >= self.scroll_threshold_px
                THEN [self EXCEPT !.is_scrolling = TRUE,
                                  !.yview_call = "pages"]
                ELSE self

update_scroll_position(self, cursor_bbox) ==
    IF self.is_scrolling THEN self
    ELSE CASE cursor_bbox.kind = "error" -> self
           [] cursor_bbox.kind = "none" -> [self EXCEPT !.yview_call = "see"]
           [] cursor_bbox.kind = "box" ->
                IF cursor_bbox.y >= self.scroll_threshold_px
                THEN after([self EXCEPT !.is_scrolling = TRUE,
                                        !.yview_call = "pages"],
                           "_enable_scrolling")
                ELSE self

\* Fault variant of on_key_press: the modifier keys return before the
\* timer is started.
on_key_press_modifier_first(self, event, cursor_bbox) ==
    IF event.keysym \in ModifierKeysyms THEN self
    ELSE LET started == start_test(self)
             handled ==
                 IF event.keysym = "BackSpace"
                 THEN handle_backspace(started)
                 ELSE IF started.current_index < Len0(started)
                      THEN handle_character(started, event)
                      ELSE started
         IN  update_scroll_position(update_cursor_position(handled),
                                    cursor_bbox)

\* Fault variant of on_key_press: no early return for the modifier keys.
on_key_press_no_return(self, event, cursor_bbox) ==
    LET started == start_test(self)
        handled == IF event.keysym = "BackSpace"
                   THEN handle_backspace(started)
                   ELSE IF started.current_index < Len0(started)
                        THEN handle_character(started, event)
                        ELSE started
    IN  update_scroll_position(update_cursor_position(handled), cursor_bbox)

on_key_press(self, event, cursor_bbox) ==
    LET started == start_test(self)
    IN  IF event.keysym \in ModifierKeysyms THEN started
        ELSE LET handled ==
                     IF event.keysym = "BackSpace"
                     THEN handle_backspace(started)
                     ELSE IF started.current_index < Len0(started)
                          THEN handle_character(started, event)
                          ELSE started
             IN  update_scroll_position(update_cursor_position(handled),
                                        cursor_bbox)

\* ----------------------------------------------------------------- actions

\* An event starts with no scroll call made.
Entered == [Self EXCEPT !.yview_call = "none"]

Off == 0 - 1

\* What last_key records of a key press: the kind of key it was for the
\* session it met, the cursor it met, whether it printed the character
\* expected there, of a BackSpace, whether the key press before it was such
\* a hit, and whether it was the first the handler got (it met a timer that
\* was not running).
\*   "unbound"    no <KeyPress> handler was bound
\*   "modifier"   a keysym of ModifierKeysyms
\*   "backspace"  BackSpace
\*   "character"  any other key, met with the cursor inside the phrase
\*   "complete"   any other key, met with the cursor at the end of the phrase
KeyKind(event) ==
    CASE ~key_bound -> "unbound"
      [] event.keysym \in ModifierKeysyms -> "modifier"
      [] event.keysym = "BackSpace" -> "backspace"
      [] current_index < Len(original_text) -> "character"
      [] OTHER -> "complete"

Prints(event, i) ==
    /\ i < Len(original_text)
    /\ event.char = original_text[i + 1]

KeyRecord(event) ==
    [kind |-> KeyKind(event),
     index |-> current_index,
     hit |-> KeyKind(event) = "character" /\ Prints(event, current_index),
     after_hit |-> KeyKind(event) = "backspace" /\ last_key.hit,
     first |-> key_bound /\ ~timer_running]

NoKey ==
    [kind |-> "none", index |-> 0, hit |-> FALSE, after_hit |-> FALSE,
     first |-> FALSE]

\* The state after __init__: the fields of _initialize_state_variables, the
\* widgets of _setup_ui (an empty text area) and _initial_setup scheduled.
Init ==
    /\ original_text = <<>>
    /\ current_index = 0
    /\ correct_chars = 0
    /\ total_typed_chars = 0
    /\ time_left = TEST_DURATION
    /\ timer_running = FALSE
    /\ timer_id = "None"
    /\ is_scrolling = FALSE
    /\ line_height_px = 1
    /\ scroll_threshold_px = 0
    /\ tag_ranges = NoTags
    /\ key_bound = FALSE
    /\ after_queue = [cb \in {"_initial_setup", "_update_timer",
                              "_enable_scrolling"} |->
                        IF cb = "_initial_setup" THEN 1 ELSE 0]
    /\ wpm_label = "WPM: 0"
    /\ title_label = "Test your typing speed!"
    /\ yview_call = "none"
    /\ end_test_runs = 0
    /\ last_key = NoKey
    /\ matched = 0

\* The event loop runs _initial_setup: reading the phrase file answers
\* with one of reads, the text widget with the box of its first character.
InitialSetupWith(reads) ==
    /\ after_queue["_initial_setup"] > 0
    /\ \E read \in reads, bbox \in FirstCharBboxes :
         Becomes(initial_setup(Fired(Entered, "_initial_setup"), read, bbox))
    /\ UNCHANGED <<last_key, matched>>

\* The phrase file is there and has lines.
InitialSetup == InitialSetupWith({FileLine(line) : line \in RawLines})

\* The boxes text_area.bbox() can answer to this key press; it is asked only
\* when the handler reaches the threshold test of _update_scroll_position.
BboxesAsked(event) ==
    IF event.keysym \in ModifierKeysyms \/ is_scrolling
    THEN {BboxNone} ELSE CursorBboxes

\* The toolkit delivers a key press and text_area.bbox() would answer
\* cursor_bbox: on_key_press runs when it is bound, and nothing runs when it
\* is not.  Hits beyond most are not explored.
KeyPressWith(event, cursor_bbox, most) ==
    /\ last_key' = KeyRecord(event)
    /\ IF key_bound
       THEN /\ LET after_key == on_key_press(Entered, event, cursor_bbox)
               IN  /\ after_key.correct_chars <= most
                   /\ Becomes(after_key)
            /\ matched' = IF matched # Off /\ Prints(event, matched)
                          THEN matched + 1 ELSE Off
       ELSE /\ Becomes(Entered)
            /\ UNCHANGED matched

KeyPress(event) ==
    \E cursor_bbox \in BboxesAsked(event) :
        KeyPressWith(event, cursor_bbox, MaxCorrect)

\* The event loop runs a scheduled _update_timer.
UpdateTimer ==
    /\ after_queue["_update_timer"] > 0
    /\ Becomes(update_timer(Fired(Entered, "_update_timer")))
    /\ UNCHANGED <<last_key, matched>>

\* The event loop runs a scheduled _enable_scrolling.
EnableScrolling ==
    /\ after_queue["_enable_scrolling"] > 0
    /\ Becomes(enable_scrolling(Fired(Entered, "_enable_scrolling")))
    /\ UNCHANGED <<last_key, matched>>

Next ==
    \/ InitialSetup
    \/ \E event \in KeyEvents : KeyPress(event)
    \/ UpdateTimer
    \/ EnableScrolling

Spec == Init /\ [][Next]_vars

\* The session under a fair event loop: master.mainloop() runs every
\* callback that after() has scheduled once its delay is over, whatever key
\* presses arrive.  The phrases are those of at most MaxFairLen characters.
ShortLines == {line \in RawLines : Len(line) <= MaxFairLen + 1}

InitialSetupShort == InitialSetupWith({FileLine(line) : line \in ShortLines})

NextFair ==
    \/ InitialSetupShort
    \/ \E event \in KeyEvents : KeyPress(event)
    \/ UpdateTimer
    \/ EnableScrolling

SpecFair ==
    /\ Init
    /\ [][NextFair]_vars
    /\ WF_vars(UpdateTimer)
    /\ WF_vars(EnableScrolling)

\* The timer expiry on its own.  A session on the phrase "a" has counted
\* down to 0 and its last timer callback is scheduled; the user has made any
\* number of hits up to MaxHits (typing the "a" and erasing it again) and
\* has left the phrase erased, typed right or typed wrong.  The one step is
\* the callback that ends the test.
ExpiryRecord(left) ==
    CASE left = "erased" ->
            [kind |-> "backspace", index |-> 1, hit |-> FALSE,
             after_hit |-> FALSE, first |-> FALSE]
      [] left = "right" ->
            [kind |-> "character", index |-> 0, hit |-> TRUE,
             after_hit |-> FALSE, first |-> FALSE]
      [] left = "wrong" ->
            [kind |-> "character", index |-> 0, hit |-> FALSE,
             after_hit |-> FALSE, first |-> FALSE]

InitExpiry ==
    \E hits \in 0..MaxHits, left \in {"erased", "right", "wrong"} :
        /\ left = "right" => hits > 0
        /\ original_text = <<"a">>
        /\ current_index = IF left = "erased" THEN 0 ELSE 1
        /\ correct_chars = hits
        /\ total_typed_chars = IF left = "erased" THEN 0 ELSE 1
        /\ time_left = 0
        /\ timer_running = TRUE
        /\ timer_id = "scheduled"
        /\ is_scrolling = FALSE
        /\ line_height_px = DefaultLineHeight
        /\ scroll_threshold_px = DefaultScrollThreshold
        /\ tag_ranges =
             [untouched |-> IF left = "erased" THEN {0, 1} ELSE {1},
              correct |-> IF left = "right" THEN {0} ELSE {},
              incorrect |-> IF left = "wrong" THEN {0} ELSE {},
              cursor |-> IF left = "erased" THEN {0} ELSE {}]
        /\ key_bound = TRUE
        /\ after_queue = [cb \in {"_initial_setup", "_update_timer",
                                  "_enable_scrolling"} |->
                            IF cb = "_update_timer" THEN 1 ELSE 0]
        /\ wpm_label = "WPM: 0"
        /\ title_label = "Test your typing speed!"
        /\ yview_call = "none"
        /\ end_test_runs = 0
        /\ last_key = ExpiryRecord(left)
        /\ matched = Off

NextExpiry == UpdateTimer

SpecExpiry == InitExpiry /\ [][NextExpiry]_vars

\* The session on a phrase file that is missing or empty.  The text has 44
\* characters, so the user is taken to type it as it stands: every key press
\* is Shift, or the key that prints the character under the cursor, or,
\* with no character under the cursor, the full stop.
KeyFor(char) ==
    KeyEvent(CASE char = " " -> "space"
               [] char = ":" -> "colon"
               [] char = "." -> "period"
               [] OTHER -> char,
             char)

KeysAsItStands ==
    {KeyEvent("Shift_L", ""),
     IF current_index < Len(original_text)
     THEN KeyFor(original_text[current_index + 1])
     ELSE KeyFor(".")}

InitialSetupLoadFailure == InitialSetupWith({FileMissing, FileEmpty})

KeyPressAsItStands(event) ==
    \E cursor_bbox \in BboxesAsked(event) :
        KeyPressWith(event, cursor_bbox, Len(ErrorText))

NextLoadFailure ==
    \/ InitialSetupLoadFailure
    \/ \E event \in KeysAsItStands : KeyPressAsItStands(event)
    \/ UpdateTimer
    \/ EnableScrolling

SpecLoadFailure == Init /\ [][NextLoadFailure]_vars

\* ------------------------------------------------------------------ claims

Ended == end_test_runs > 0

\* C1: in every reachable state correct_chars <= total_typed_chars.
C1_CorrectAtMostTotal == correct_chars <= total_typed_chars

\* C2: in every reachable state 0 <= current_index <= len(original_text) and
\* total_typed_chars >= 0, and a BackSpace key press that meets the cursor at
\* index 0 leaves current_index, total_typed_chars, correct_chars and every
\* tag as they were.
C2_CursorInRange ==
    /\ 0 <= current_index
    /\ current_index <= Len(original_text)
    /\ total_typed_chars >= 0

C2_BackspaceFloor ==
    [][/\ C2_CursorInRange'
       /\ \A event \in KeyEvents :
            (event.keysym = "BackSpace" /\ current_index = 0 /\ KeyPress(event))
            => UNCHANGED <<current_index, total_typed_chars, correct_chars,
                           tag_ranges>>]_vars

\* A handled BackSpace has met the cursor at index 0.
C2_Witness ==
    /\ last_key.kind = "backspace"
    /\ last_key.index = 0
    /\ current_index = 0

\* C3: with the cursor at p, every index below p carries exactly one of
\* correct and incorrect and not untouched, every index from p on carries
\* untouched and neither of them, and the cursor highlight is on index p
\* alone when p is inside the phrase and on no character when p is its end.
C3_TagsFollowCursor ==
    LET p == current_index
        n == Len(original_text)
        correct == tag_ranges["correct"]
        incorrect == tag_ranges["incorrect"]
        untouched == tag_ranges["untouched"]
    IN  /\ \A i \in 0..(n - 1) :
             IF i < p
             THEN /\ (i \in correct) # (i \in incorrect)
                  /\ i \notin untouched
             ELSE /\ i \in untouched
                  /\ i \notin correct \cup incorrect
        /\ tag_ranges["cursor"] = IF p < n THEN {p} ELSE {}

\* The cursor stands inside a phrase, behind a hit and a miss.
C3_Witness ==
    /\ current_index = 2
    /\ Len(original_text) = 3
    /\ 0 \in tag_ranges["correct"]
    /\ 1 \in tag_ranges["incorrect"]

\* C4: once _end_test has run, the key handler is detached and no timer
\* callback is scheduled, no later event changes current_index,
\* correct_chars, total_typed_chars, the tags, time_left or the WPM shown,
\* and _end_test does not run again.
C4_EndIsAbsorbing ==
    [][/\ end_test_runs' <= 1
       /\ Ended' => (~key_bound' /\ after_queue'["_update_timer"] = 0)
       /\ Ended => UNCHANGED <<current_index, correct_chars,
                               total_typed_chars, tag_ranges, time_left,
                               wpm_label, end_test_runs>>]_vars

\* A key has been pressed after the end of the session.
C4_Witness ==
    /\ Ended
    /\ last_key.kind = "unbound"

\* C5: in every state with time_left = 0 no timer callback is scheduled, the
\* key handler is detached and the WPM has been computed.
C5_EndsAtZero ==
    time_left = 0
    => /\ after_queue["_update_timer"] = 0
       /\ ~key_bound
       /\ Ended

\* C6: the WPM shown at timer expiry is (correct_chars / 5) /
\* (TEST_DURATION / 60) with TEST_DURATION = 30, that is 40 hundredths per
\* correct character, whatever total_typed_chars and the cursor are; 25
\* correct characters show "WPM: 10.00".
Hundredths(h) ==
    "WPM: " \o ToString(h \div 100) \o "." \o ToString((h % 100) \div 10)
        \o ToString(h % 10)

C6_WpmAtExpiry ==
    Ended
    => /\ wpm_label = Hundredths(40 * correct_chars)
       /\ correct_chars = 25 => wpm_label = "WPM: 10.00"

\* The test has ended with 25 correct characters and none left typed.
C6_Witness ==
    /\ Ended
    /\ correct_chars = 25
    /\ total_typed_chars = 0
    /\ wpm_label = "WPM: 10.00"

\* C7: when the session has ended and the key presses of the session were
\* exactly the keys that print the characters of the phrase, in order, then
\* the cursor is at the end of the phrase, every character is tagged correct
\* and correct_chars = total_typed_chars = len(original_text).
C7_Typed ==
    LET n == Len(original_text)
    IN  /\ current_index = n
        /\ tag_ranges["correct"] = 0..(n - 1)
        /\ tag_ranges["incorrect"] = {}
        /\ correct_chars = n
        /\ total_typed_chars = n

C7_ExactTypingAnyPhrase ==
    (Ended /\ matched = Len(original_text)) => C7_Typed

\* C7 as amended: the same, for a phrase without a tab character.
C7_ExactTyping ==
    (/\ Ended
     /\ matched = Len(original_text)
     /\ \A i \in 1..Len(original_text) : original_text[i] # "\t")
    => C7_Typed

\* A phrase of two characters was typed exactly and the session has ended.
C7_Witness ==
    /\ Ended
    /\ matched = Len(original_text)
    /\ original_text = <<"a", "a">>

\* C8: a handled BackSpace key press that comes right after a correct
\* character key press takes 1 off current_index and off total_typed_chars,
\* leaves correct_chars as it was and leaves the character at the new index
\* untouched, neither correct nor incorrect.
C8_BackspaceAfterHit ==
    [][\A event \in KeyEvents :
         (/\ event.keysym = "BackSpace"
          /\ last_key.hit
          /\ key_bound
          /\ KeyPress(event))
         => /\ current_index' = current_index - 1
            /\ total_typed_chars' = total_typed_chars - 1
            /\ correct_chars' = correct_chars
            /\ current_index' \in tag_ranges'["untouched"]
            /\ current_index' \notin
                   tag_ranges'["correct"] \cup tag_ranges'["incorrect"]]_vars

\* A BackSpace has erased the hit of the key press before it.
C8_Witness ==
    /\ last_key.kind = "backspace"
    /\ last_key.after_hit
    /\ correct_chars > total_typed_chars

\* C9: a key press of a modifier keysym leaves current_index, correct_chars,
\* total_typed_chars and every tag, the cursor highlight among them, as they
\* were and makes no scroll call.
C9_ModifierIsNoOp ==
    [][\/ /\ UNCHANGED <<current_index, correct_chars, total_typed_chars,
                         tag_ranges, is_scrolling>>
          /\ yview_call' = "none"
       \/ ~ \E event \in KeyEvents :
              event.keysym \in ModifierKeysyms /\ KeyPress(event)]_vars

\* A modifier key was pressed in the middle of a phrase.
C9_Witness ==
    /\ last_key.kind = "modifier"
    /\ last_key.index = 1
    /\ current_index = 1

\* C10: every run of _setup_new_test ends with current_index = 0,
\* correct_chars = 0, total_typed_chars = 0, every character untouched, and
\* the cursor highlight on index 0.
C10_Reset ==
    /\ current_index = 0
    /\ correct_chars = 0
    /\ total_typed_chars = 0
    /\ \A i \in 0..(Len(original_text) - 1) : i \in tag_ranges["untouched"]
    /\ tag_ranges["correct"] = {}
    /\ tag_ranges["incorrect"] = {}

C10_SetupResetsHighlightAtZero ==
    [][InitialSetup => (C10_Reset' /\ tag_ranges'["cursor"] = {0})]_vars

\* C10 as amended: the cursor highlight is on index 0 when the phrase is not
\* empty, and on no character when it is.
C10_SetupResets ==
    [][InitialSetup
       => /\ C10_Reset'
          /\ tag_ranges'["cursor"] =
                 IF Len(original_text') > 0 THEN {0} ELSE {}]_vars

\* A phrase has been set up and no key pressed yet.
C10_Witness ==
    /\ key_bound
    /\ ~timer_running
    /\ Len(original_text) = MaxLen
    /\ tag_ranges["cursor"] = {0}
    /\ tag_ranges["untouched"] = 0..MaxLen

\* C11: when the phrase file is missing or empty, _setup_new_test leaves the
\* fixed error text in original_text and the session is set up as any other
\* (cursor 0, every character untouched, the key handler bound, the timer
\* not running); from then on the tags follow the cursor, each key that
\* prints the character under the cursor moves the cursor one to the right,
\* the first key press starts the timer, and each timer callback that finds
\* time left takes one second and schedules the next.
C11_LoadFailureSession ==
    /\ [](after_queue["_initial_setup"] = 0
          => /\ original_text = ErrorText
             /\ C2_CursorInRange
             /\ C3_TagsFollowCursor
             /\ key_bound \/ Ended)
    /\ [][/\ InitialSetupLoadFailure
             => /\ current_index' = 0
                /\ tag_ranges'["untouched"] = 0..Len(ErrorText)
                /\ key_bound' /\ ~timer_running'
                /\ time_left' = TEST_DURATION
          /\ \A event \in KeysAsItStands :
               (key_bound /\ KeyPressAsItStands(event))
               => /\ timer_running' /\ after_queue'["_update_timer"] = 1
                  /\ current_index' =
                        IF KeyKind(event) = "character"
                        THEN current_index + 1 ELSE current_index
          /\ (UpdateTimer /\ time_left > 0)
             => /\ time_left' = time_left - 1
                /\ after_queue'["_update_timer"] = 1]_vars

\* The error text has been typed to its end and the timer has expired.
C11_Witness ==
    /\ original_text = ErrorText
    /\ current_index = Len(ErrorText)
    /\ correct_chars = Len(ErrorText)
    /\ Ended

\* C12: with the cursor inside the phrase, a key press that is not BackSpace
\* and prints no character (an arrow key; event.char is empty) changes none
\* of current_index, correct_chars, total_typed_chars and the tags.
C12_OnlyBackspaceAndPrintable ==
    [][\/ UNCHANGED <<current_index, correct_chars, total_typed_chars,
                      tag_ranges>>
       \/ ~ \E event \in KeyEvents :
              /\ event.keysym # "BackSpace"
              /\ event.char = ""
              /\ key_bound
              /\ current_index < Len(original_text)
              /\ KeyPress(event)]_vars

\* C13: at most one timer callback is scheduled at any time; the first key
\* press of a session sets timer_running and schedules the callback, a key
\* press on a running timer changes neither the schedule nor time_left; and
\* every timer callback takes exactly 1 from time_left.
C13_TimerStartsOnce ==
    [][/\ after_queue'["_update_timer"] <= 1
       /\ \A event \in KeyEvents :
            (key_bound /\ KeyPress(event))
            => IF timer_running
               THEN /\ after_queue'["_update_timer"]
                         = after_queue["_update_timer"]
                    /\ UNCHANGED <<time_left, timer_running>>
               ELSE /\ timer_running'
                    /\ after_queue'["_update_timer"] = 1
       /\ UpdateTimer => time_left' = time_left - 1]_vars

\* C14: a key press on a session whose timer is not running, whatever the
\* key, sets timer_running, takes the first second and schedules the timer
\* callback; when the key is a modifier it changes neither the cursor nor
\* the counters.
C14_FirstKeyStartsTimer ==
    [][\A event \in KeyEvents :
          \/ /\ timer_running'
             /\ time_left' = TEST_DURATION - 1
             /\ after_queue'["_update_timer"] = 1
             /\ event.keysym \in ModifierKeysyms
                => UNCHANGED <<current_index, correct_chars,
                               total_typed_chars>>
          \/ ~ (key_bound /\ ~timer_running /\ KeyPress(event))]_vars

\* A modifier has been the first key of a session and the timer runs.
C14_Witness ==
    /\ last_key.kind = "modifier"
    /\ last_key.first
    /\ timer_running
    /\ time_left = TEST_DURATION - 1
    /\ current_index = 0

\* C15: 0 <= time_left <= 30 in every reachable state, no step increases
\* time_left, and once the timer runs, whatever keys are pressed, time_left
\* reaches 0 and _end_test runs.
C15_SessionEnds ==
    /\ [](0 <= time_left /\ time_left <= TEST_DURATION)
    /\ [][time_left' <= time_left]_vars
    /\ timer_running ~> (time_left = 0 /\ Ended)

\* The timer has expired on a session whose phrase was completed before.
C15_Witness ==
    /\ Ended
    /\ time_left = 0
    /\ Len(original_text) > 0
    /\ current_index = Len(original_text)

\* C16: with the cursor at the end of the phrase, a key press leaves the
\* timer callback scheduled and the handler bound; one that is neither a
\* modifier nor BackSpace changes none of current_index, correct_chars,
\* total_typed_chars, time_left (on a running timer) and the tags; and
\* BackSpace moves the cursor to len - 1.
C16_AtEnd(phrases) ==
    \A event \in KeyEvents :
        \/ /\ after_queue'["_update_timer"] = 1
           /\ key_bound'
           /\ event.keysym \notin ModifierKeysyms \cup {"BackSpace"}
              => /\ UNCHANGED <<current_index, correct_chars,
                                total_typed_chars, tag_ranges>>
                 /\ timer_running => UNCHANGED time_left
           /\ (event.keysym = "BackSpace" /\ original_text \in phrases)
              => current_index' = Len(original_text) - 1
        \/ ~ /\ key_bound
             /\ current_index = Len(original_text)
             /\ KeyPress(event)

C16_AtEndOfAnyPhrase ==
    [][C16_AtEnd(Seq(Alphabet \cup Whitespace))]_vars

\* C16 as amended: BackSpace moves the cursor to len - 1 when the phrase is
\* not empty.
C16_AtEndOfPhrase ==
    [][C16_AtEnd(Seq(Alphabet \cup Whitespace) \ {<<>>})]_vars

\* A character key has met the cursor at the end of a phrase that is not
\* empty, with the timer running.
C16_Witness ==
    /\ last_key.kind = "complete"
    /\ Len(original_text) > 0
    /\ current_index = Len(original_text)
    /\ timer_running
    /\ ~Ended

\* C17: once _initial_setup has run, line_height_px and scroll_threshold_px
\* are either the measured ones (the height h of the first character and
\* the widget height less a line and a half, in pixels) or the defaults 25
\* and 50.
C17_GeometryFallback ==
    after_queue["_initial_setup"] = 0
    => \/ /\ line_height_px = DefaultLineHeight
          /\ scroll_threshold_px = DefaultScrollThreshold
       \/ /\ line_height_px \in LineHeights
          /\ scroll_threshold_px
               = line_height_px * WidgetHeightInLines
                 - (line_height_px * 3) \div 2

C19_TypedIsCursor == total_typed_chars = current_index

\* A BackSpace has met the cursor at index 2 and has taken one from both.
C19_Witness ==
    /\ last_key.kind = "backspace"
    /\ last_key.index = 2
    /\ current_index = 1
    /\ total_typed_chars = 1

\* C20: no step takes from correct_chars, and in every reachable state
\* correct_chars is at least the number of characters tagged correct.
C20_HitsNeverDrop ==
    /\ [](correct_chars >= Cardinality(tag_ranges["correct"]))
    /\ [][correct_chars' >= correct_chars]_vars

\* A hit has been made after an erased one: more hits are counted than
\* characters are tagged correct.
C20_Witness ==
    /\ last_key.kind = "character"
    /\ last_key.hit
    /\ correct_chars > Cardinality(tag_ranges["correct"])

====
